---- MODULE Spec2Model ----
(***************************************************************************)
(* A model of the go-tables rendering library: byte-level width            *)
(* measurement (width.go), cell formatting and column layout (table.go)    *)
(* and border rendering (table_styles.go).  Byte buffers are sequences of  *)
(* integers 0..255; code points are integers.                              *)
(***************************************************************************)
EXTENDS Integers, Sequences, FiniteSets, TLC

VARIABLES headers, rows, style, aligns, maxWidths, widthFunc, pool, last

tvars == <<headers, rows, style, aligns, maxWidths, widthFunc>>
vars == <<headers, rows, style, aligns, maxWidths, widthFunc, pool, last>>

(***************************************************************************)
(* Bounds of the model.                                                    *)
(***************************************************************************)
MaxTokens == 3

MaxWidth == 4

MaxRows == 2

MaxAsciiLen == 5

MaxDenseRune == 12799

(***************************************************************************)
(* Small helpers on sequences.                                             *)
(***************************************************************************)
Drop(b, n) == SubSeq(b, n + 1, Len(b))

Take(b, n) == SubSeq(b, 1, n)

Spaces(n) == [i \in 1..n |-> 32]

(***************************************************************************)
(* unicode/utf8: DecodeRune and EncodeRune.                                *)
(***************************************************************************)
RuneError == 65533

\* utf8.first / utf8.acceptRanges: size and the accepted range of the second
\* byte for a leading byte p0 >= 0x80; size 0 marks an invalid leading byte.
FirstInfo(p0) ==
    IF p0 >= 194 /\ p0 <= 223 THEN [sz |-> 2, lo |-> 128, hi |-> 191]
    ELSE IF p0 = 224 THEN [sz |-> 3, lo |-> 160, hi |-> 191]
    ELSE IF p0 >= 225 /\ p0 <= 236 THEN [sz |-> 3, lo |-> 128, hi |-> 191]
    ELSE IF p0 = 237 THEN [sz |-> 3, lo |-> 128, hi |-> 159]
    ELSE IF p0 >= 238 /\ p0 <= 239 THEN [sz |-> 3, lo |-> 128, hi |-> 191]
    ELSE IF p0 = 240 THEN [sz |-> 4, lo |-> 144, hi |-> 191]
    ELSE IF p0 >= 241 /\ p0 <= 243 THEN [sz |-> 4, lo |-> 128, hi |-> 191]
    ELSE IF p0 = 244 THEN [sz |-> 4, lo |-> 128, hi |-> 143]
    ELSE [sz |-> 0, lo |-> 0, hi |-> 0]

\* The multi-byte cases of utf8.DecodeRune, x being FirstInfo(b[1]).
DecodeMulti(b, x) ==
    IF x.sz = 0 THEN [r |-> RuneError, size |-> 1]
    ELSE IF Len(b) < x.sz THEN [r |-> RuneError, size |-> 1]
    ELSE IF b[2] < x.lo \/ x.hi < b[2] THEN [r |-> RuneError, size |-> 1]
    ELSE IF x.sz = 2
         THEN [r |-> (b[1] % 32) * 64 + (b[2] % 64), size |-> 2]
    ELSE IF b[3] < 128 \/ 191 < b[3] THEN [r |-> RuneError, size |-> 1]
    ELSE IF x.sz = 3
         THEN [r |-> (b[1] % 16) * 4096 + (b[2] % 64) * 64 + (b[3] % 64),
               size |-> 3]
    ELSE IF b[4] < 128 \/ 191 < b[4] THEN [r |-> RuneError, size |-> 1]
    ELSE [r |-> (b[1] % 8) * 262144 + (b[2] % 64) * 4096
                  + (b[3] % 64) * 64 + (b[4] % 64),
          size |-> 4]

\* utf8.DecodeRune(b): the first code point of b and its encoded size;
\* (RuneError, 0) for an empty buffer, (RuneError, 1) for an invalid encoding.
DecodeRune(b) ==
    IF Len(b) = 0 THEN [r |-> RuneError, size |-> 0]
    ELSE IF b[1] < 128 THEN [r |-> b[1], size |-> 1]
    ELSE DecodeMulti(b, FirstInfo(b[1]))

\* utf8.EncodeRune(r): the UTF-8 bytes of code point r.
EncodeRune(r) ==
    IF r < 0 \/ r > 1114111 \/ (r >= 55296 /\ r <= 57343) THEN <<239, 191, 189>>
    ELSE IF r < 128 THEN <<r>>
    ELSE IF r < 2048 THEN <<192 + (r \div 64), 128 + (r % 64)>>
    ELSE IF r < 65536
         THEN <<224 + (r \div 4096), 128 + ((r \div 64) % 64), 128 + (r % 64)>>
    ELSE <<240 + (r \div 262144), 128 + ((r \div 4096) % 64),
           128 + ((r \div 64) % 64), 128 + (r % 64)>>

(***************************************************************************)
(* width.go: the width classifier.                                         *)
(***************************************************************************)
wideRanges ==
    << <<19968, 40959, 2>>, <<13312, 19903, 2>>, <<131072, 173791, 2>>,
       <<173824, 177983, 2>>, <<177984, 178207, 2>>, <<178208, 183983, 2>>,
       <<183984, 191471, 2>>,
       <<44032, 55215, 2>>, <<4352, 4447, 2>>, <<4448, 4607, 2>>,
       <<43360, 43391, 2>>,
       <<12352, 12447, 2>>, <<12448, 12543, 2>>, <<12784, 12799, 2>>,
       <<12288, 12351, 2>>, <<11904, 12031, 2>>, <<12032, 12255, 2>>,
       <<12272, 12287, 2>>,
       <<65281, 65376, 2>>, <<65504, 65510, 2>>,
       <<127744, 128511, 2>>, <<128512, 128591, 2>>, <<128640, 128767, 2>>,
       <<128768, 128895, 2>>, <<128896, 129023, 2>>, <<129024, 129279, 2>>,
       <<129280, 129535, 2>>, <<129536, 129647, 2>>, <<129648, 129791, 2>>,
       <<9312, 9471, 2>>, <<9632, 9727, 2>>, <<9728, 9983, 2>>,
       <<9984, 10175, 2>> >>

zeroWidthRanges ==
    << <<768, 879, 0>>, <<6832, 6911, 0>>, <<7616, 7679, 0>>,
       <<8400, 8447, 0>>, <<65056, 65071, 0>>, <<8203, 8207, 0>>,
       <<8232, 8233, 0>>, <<8234, 8238, 0>>, <<8288, 8292, 0>> >>

InRange(r, rang) == r >= rang[1] /\ r <= rang[2]

\* The entries of a range table that contain r, in table order.
Matches(r, table) == {i \in 1..Len(table) : InRange(r, table[i])}

FirstMatch(r, table) ==
    CHOOSE i \in Matches(r, table) : \A j \in Matches(r, table) : i <= j

\* The classifier without its ASCII fast path.
RuneWidth_NoFastPath(r) ==
    IF Matches(r, zeroWidthRanges) # {} THEN 0
    ELSE IF Matches(r, wideRanges) # {}
         THEN wideRanges[FirstMatch(r, wideRanges)][3]
    ELSE 1

RuneWidth(r) ==
    IF r < 128 THEN (IF r >= 32 THEN 1 ELSE 0)
    ELSE IF Matches(r, zeroWidthRanges) # {} THEN 0
    ELSE IF Matches(r, wideRanges) # {}
         THEN wideRanges[FirstMatch(r, wideRanges)][3]
    ELSE 1

\* A caller-supplied WidthFunc: a more precise classifier that knows U+231A
\* (WATCH) to be East Asian Wide, and otherwise agrees with RuneWidth.
PreciseWidth(r) == IF r = 8986 THEN 2 ELSE RuneWidth(r)

WidthFuncs == {"RuneWidth", "PreciseWidth"}

\* DefaultWidthFunc
DefaultWidthFunc == "RuneWidth"

\* Calling a WidthFunc value.
CallWidthFunc(f, r) == IF f = "RuneWidth" THEN RuneWidth(r) ELSE PreciseWidth(r)

RECURSIVE StringWidthBytesCustom(_, _)
\* One pass of the loop of StringWidthBytesCustom, d being the decoded front.
StringWidthRune(b, f, d) ==
    IF d.r = RuneError
    THEN 1 + StringWidthBytesCustom(Drop(b, 1), f)
    ELSE CallWidthFunc(f, d.r) + StringWidthBytesCustom(Drop(b, d.size), f)

StringWidthBytesCustom(b, f) ==
    IF Len(b) = 0 THEN 0 ELSE StringWidthRune(b, f, DecodeRune(b))

\* The loop of TruncateToWidthBytes: [kept, rest, width] when it exits.
RECURSIVE TruncLoop(_, _, _, _)
\* A pass that stops as soon as the limit is reached.
TruncFit_StopAtLimit(b, result, width, maxWidth, d, runeWidth) ==
    IF width + runeWidth >= maxWidth
    THEN [kept |-> result, rest |-> b, width |-> width]
    ELSE TruncLoop(Drop(b, d.size), result \o Take(b, d.size),
                   width + runeWidth, maxWidth)

\* One pass of the loop, for the decoded front d and its width runeWidth.
TruncFit(b, result, width, maxWidth, d, runeWidth) ==
    IF width + runeWidth > maxWidth
    THEN [kept |-> result, rest |-> b, width |-> width]
    ELSE TruncLoop(Drop(b, d.size), result \o Take(b, d.size),
                   width + runeWidth, maxWidth)

TruncRune(b, result, width, maxWidth, d) ==
    TruncFit(b, result, width, maxWidth, d, RuneWidth(d.r))

TruncLoop(b, result, width, maxWidth) ==
    IF Len(b) = 0 THEN [kept |-> result, rest |-> b, width |-> width]
    ELSE TruncRune(b, result, width, maxWidth, DecodeRune(b))

\* The ellipsis test after the loop, l being the loop's exit state.
TruncEllipsis(l, maxWidth) ==
    IF Len(l.rest) > 0 /\ l.width <= maxWidth - 3
    THEN l.kept \o <<46, 46, 46>>
    ELSE l.kept

TruncateToWidthBytes(b, maxWidth) ==
    IF maxWidth <= 0 THEN <<>>
    ELSE TruncEllipsis(TruncLoop(b, <<>>, 0, maxWidth), maxWidth)

(***************************************************************************)
(* ansi.go (not among the sources): the escape-sequence scanner and the    *)
(* ANSI-aware measurement, modelled from the specification, sections 3,    *)
(* 4.2 and 4.3.                                                            *)
(***************************************************************************)
ESC == 27

\* The index of the first byte at or after j that is not a parameter or
\* intermediate byte (0x20-0x3F); Len(b) + 1 when there is none.
RECURSIVE SkipParams(_, _)
SkipParams(b, j) ==
    IF j > Len(b) THEN j
    ELSE IF b[j] >= 32 /\ b[j] <= 63 THEN SkipParams(b, j + 1)
    ELSE j

\* A scanner that stops before the final byte of a sequence.
ScanFinal_BeforeFinal(b, j) ==
    IF j > Len(b) THEN Len(b)
    ELSE IF b[j] >= 64 /\ b[j] <= 126 THEN j - 1
    ELSE 0

\* The end of a sequence whose parameter bytes stop before index j.
ScanFinal(b, j) ==
    IF j > Len(b) THEN Len(b)
    ELSE IF b[j] >= 64 /\ b[j] <= 126 THEN j
    ELSE 0

\* The byte length of the CSI sequence that starts at the front of b, or 0
\* when none starts there.  An unterminated sequence consumes the buffer.
ScanEscape(b) ==
    IF Len(b) >= 2 /\ b[1] = ESC /\ b[2] = 91
    THEN ScanFinal(b, SkipParams(b, 3))
    ELSE 0

RECURSIVE MeasureWidthIgnoreANSIBytesCustom(_, _)
\* The front of b is no escape sequence and decodes to d.
MeasureRune(b, f, d) ==
    IF d.r = RuneError /\ d.size = 1
    THEN 1 + MeasureWidthIgnoreANSIBytesCustom(Drop(b, 1), f)
    ELSE CallWidthFunc(f, d.r)
         + MeasureWidthIgnoreANSIBytesCustom(Drop(b, d.size), f)

\* An escape sequence of n > 0 bytes at the front of b is skipped.
MeasureFront(b, f, n) ==
    IF n > 0 THEN MeasureWidthIgnoreANSIBytesCustom(Drop(b, n), f)
    ELSE MeasureRune(b, f, DecodeRune(b))

MeasureWidthIgnoreANSIBytesCustom(b, f) ==
    IF Len(b) = 0 THEN 0 ELSE MeasureFront(b, f, ScanEscape(b))

HasANSIBytes(b) == \E i \in 1..Len(b) : ScanEscape(Drop(b, i - 1)) > 0

RECURSIVE StripANSIBytes(_)
StripFront(b, n) ==
    IF n > 0 THEN StripANSIBytes(Drop(b, n))
    ELSE <<b[1]>> \o StripANSIBytes(Drop(b, 1))

StripANSIBytes(b) ==
    IF Len(b) = 0 THEN <<>> ELSE StripFront(b, ScanEscape(b))

(***************************************************************************)
(* table.go: the cell formatter.                                           *)
(***************************************************************************)
AlignLeft == 0

AlignCenter == 1

AlignRight == 2

Aligns == {AlignLeft, AlignCenter, AlignRight}

\* The branch of truncateWithANSI for a cell with escape sequences.
truncateStripped(f, cell, maxWidth, stripped) ==
    IF StringWidthBytesCustom(stripped, f) <= maxWidth THEN cell
    ELSE TruncateToWidthBytes(stripped, maxWidth)

truncateWithANSI(f, cell, maxWidth) ==
    IF ~HasANSIBytes(cell) THEN TruncateToWidthBytes(cell, maxWidth)
    ELSE truncateStripped(f, cell, maxWidth, StripANSIBytes(cell))

\* padWithANSI with the larger half of a centered padding placed first.
padWithANSI_CeilLeft(cell, targetWidth, currentWidth, align) ==
    LET padding == targetWidth - currentWidth
        leftPad == IF align = AlignCenter THEN padding - (padding \div 2)
                   ELSE IF align = AlignRight THEN padding
                   ELSE 0
    IN IF padding <= 0 THEN cell
       ELSE Spaces(leftPad) \o cell \o Spaces(padding - leftPad)

\* make([]byte, n) followed by the fills and the copy of each branch.
padWithANSI(cell, targetWidth, currentWidth, align) ==
    LET padding == targetWidth - currentWidth
        n == Len(cell) + padding
    IN IF padding <= 0 THEN cell
       ELSE IF align = AlignCenter
            THEN LET leftPad == padding \div 2
                     rightPad == padding - leftPad
                 IN [i \in 1..n |->
                        IF i <= leftPad THEN 32
                        ELSE IF i <= leftPad + Len(cell) THEN cell[i - leftPad]
                        ELSE IF i <= leftPad + Len(cell) + rightPad THEN 32
                        ELSE 0]
       ELSE IF align = AlignRight
            THEN [i \in 1..n |-> IF i <= padding THEN 32 ELSE cell[i - padding]]
       ELSE [i \in 1..n |-> IF i <= Len(cell) THEN cell[i] ELSE 32]

\* The branch of alignCell on the measured width of the cell.
alignMeasured(f, cell, width, align, cellWidth) ==
    IF cellWidth >= width THEN truncateWithANSI(f, cell, width)
    ELSE padWithANSI(cell, width, cellWidth, align)

alignCell(f, cell, width, align) ==
    alignMeasured(f, cell, width, align, MeasureWidthIgnoreANSIBytesCustom(cell, f))

(***************************************************************************)
(* table_styles.go: border styles and border lines.                        *)
(***************************************************************************)
StyleSingle ==
    [TopLeft |-> 9484, TopRight |-> 9488, BottomLeft |-> 9492,
     BottomRight |-> 9496, Horizontal |-> 9472, Vertical |-> 9474,
     Cross |-> 9532, TopTee |-> 9516, BottomTee |-> 9524,
     LeftTee |-> 9500, RightTee |-> 9508]

StyleASCII ==
    [TopLeft |-> 43, TopRight |-> 43, BottomLeft |-> 43,
     BottomRight |-> 43, Horizontal |-> 45, Vertical |-> 124,
     Cross |-> 43, TopTee |-> 43, BottomTee |-> 43,
     LeftTee |-> 43, RightTee |-> 43]

Styles == {StyleSingle, StyleASCII}

appendRune(b, r) == IF r < 128 THEN Append(b, r) ELSE b \o EncodeRune(r)

\* The fill loop of renderBorderLine: n fill characters appended to b.
RECURSIVE appendFill(_, _, _)
appendFill(b, r, n) == IF n <= 0 THEN b ELSE appendFill(appendRune(b, r), r, n - 1)

\* The separator after column i, none after the last column.
borderSeparator(b, widths, i, sepChar) ==
    IF i < Len(widths) THEN appendRune(b, sepChar) ELSE b

\* The column loop of renderBorderLine, from column i on.
RECURSIVE borderColumns(_, _, _, _, _)
borderColumns(b, widths, i, fillChar, sepChar) ==
    IF i > Len(widths) THEN b
    ELSE borderColumns(
             borderSeparator(appendFill(b, fillChar, widths[i] + 2), widths, i, sepChar),
             widths, i + 1, fillChar, sepChar)

\* The switch of renderBorderLine on the line type.
borderChars(s, lineType) ==
    IF lineType = "top"
    THEN [start |-> s.TopLeft, end |-> s.TopRight,
          sep |-> s.TopTee, fill |-> s.Horizontal]
    ELSE IF lineType = "middle" \/ lineType = "header"
    THEN [start |-> s.LeftTee, end |-> s.RightTee,
          sep |-> s.Cross, fill |-> s.Horizontal]
    ELSE IF lineType = "bottom"
    THEN [start |-> s.BottomLeft, end |-> s.BottomRight,
          sep |-> s.BottomTee, fill |-> s.Horizontal]
    ELSE [start |-> s.LeftTee, end |-> s.RightTee,
          sep |-> s.Cross, fill |-> s.Horizontal]

\* The line built from the chosen characters.
borderLine(widths, chars) ==
    Append(appendRune(borderColumns(appendRune(<<>>, chars.start), widths, 1,
                                    chars.fill, chars.sep),
                      chars.end),
           10)

renderBorderLine(s, widths, lineType) ==
    IF Len(widths) = 0 THEN <<>> ELSE borderLine(widths, borderChars(s, lineType))

(***************************************************************************)
(* table.go: column layout and rendering.                                  *)
(***************************************************************************)
\* "if cellWidth > widths[i] { widths[i] = cellWidth }"
widen(width, cellWidth) == IF cellWidth > width THEN cellWidth ELSE width

\* One pass of the row loop of measureColumns over a single row.
measureRow(widths, row, f) ==
    [i \in 1..Len(widths) |->
        IF i <= Len(row)
        THEN widen(widths[i], MeasureWidthIgnoreANSIBytesCustom(row[i], f))
        ELSE widths[i]]

RECURSIVE measureRows(_, _, _, _)
measureRows(widths, rs, k, f) ==
    IF k > Len(rs) THEN widths
    ELSE measureRows(measureRow(widths, rs[k], f), rs, k + 1, f)

\* The first loop of measureColumns: the measured headers.
measureHeaders(hs, f) ==
    [i \in 1..Len(hs) |-> MeasureWidthIgnoreANSIBytesCustom(hs[i], f)]

\* The clipping loop without its "maxWidth > 0" test.
clipColumns_NonPositive(widths, mws) ==
    [i \in 1..Len(widths) |->
        IF i <= Len(mws) /\ widths[i] > mws[i] THEN mws[i] ELSE widths[i]]

\* The last loop of measureColumns: clipping to the configured maxima.
clipColumns(widths, mws) ==
    [i \in 1..Len(widths) |->
        IF i <= Len(mws) /\ mws[i] > 0 /\ widths[i] > mws[i]
        THEN mws[i]
        ELSE widths[i]]

measureColumns(hs, rs, mws, f) ==
    IF Len(hs) = 0 THEN <<>>
    ELSE clipColumns(measureRows(measureHeaders(hs, f), rs, 1, f), mws)

renderBorder(buf, s, widths, borderType) ==
    IF Len(widths) = 0 THEN buf ELSE buf \o renderBorderLine(s, widths, borderType)

\* A cell written without the space that follows it.
appendCell_NoRightPad(buf, alignedCell, s) ==
    appendRune(Append(buf, 32) \o alignedCell, s.Vertical)

\* " " + the aligned cell + " " + the vertical bar, appended to buf.
appendCell(buf, alignedCell, s) ==
    appendRune(Append(Append(buf, 32) \o alignedCell, 32), s.Vertical)

rowCell(row, i) == IF i <= Len(row) THEN row[i] ELSE <<>>

rowAlign(als, i) == IF i <= Len(als) THEN als[i] ELSE AlignLeft

\* The column loop of renderRow, from column i on.
RECURSIVE rowColumns(_, _, _, _, _, _, _)
rowColumns(buf, row, widths, i, s, als, f) ==
    IF i > Len(widths) THEN buf
    ELSE rowColumns(
             appendCell(buf, alignCell(f, rowCell(row, i), widths[i], rowAlign(als, i)), s),
             row, widths, i + 1, s, als, f)

renderRow(buf, row, widths, s, als, f) ==
    IF Len(widths) = 0 THEN buf
    ELSE Append(rowColumns(appendRune(buf, s.Vertical), row, widths, 1, s, als, f), 10)

RECURSIVE renderRows(_, _, _, _, _, _, _)
renderRows(buf, rs, k, widths, s, als, f) ==
    IF k > Len(rs) THEN buf
    ELSE renderRows(renderRow(buf, rs[k], widths, s, als, f), rs, k + 1,
                    widths, s, als, f)

\* A render that forgets to reset the buffer it took from the pool.
BufferReset_Keep(buf) == buf

\* buf.Reset() on the buffer taken from the pool.
BufferReset(buf) == <<>>

\* A table value, as the methods read it.
Table == [headers |-> headers, rows |-> rows, style |-> style, aligns |-> aligns,
          maxWidths |-> maxWidths, widthFunc |-> widthFunc]

\* The lines String writes into the reset buffer b0, for the measured widths.
StringLines(t, b0, widths) ==
    renderBorder(
        renderRows(
            renderBorder(
                renderRow(renderBorder(b0, t.style, widths, "top"),
                          t.headers, widths, t.style, t.aligns, t.widthFunc),
                t.style, widths, "middle"),
            t.rows, 1, widths, t.style, t.aligns, t.widthFunc),
        t.style, widths, "bottom")

\* The buffer of String when rendering is over (lines 359-373), for the
\* buffer buf taken from the pool.
StringBuf(t, buf) ==
    StringLines(t, BufferReset(buf),
                measureColumns(t.headers, t.rows, t.maxWidths, t.widthFunc))

\* WriteTo with the header separator left out of its copy of the render.
WriteToLines_NoSeparator(t, b0, widths) ==
    renderBorder(
        renderRows(
            renderRow(renderBorder(b0, t.style, widths, "top"),
                      t.headers, widths, t.style, t.aligns, t.widthFunc),
            t.rows, 1, widths, t.style, t.aligns, t.widthFunc),
        t.style, widths, "bottom")

\* The lines WriteTo writes into the reset buffer b0.
WriteToLines(t, b0, widths) ==
    renderBorder(
        renderRows(
            renderBorder(
                renderRow(renderBorder(b0, t.style, widths, "top"),
                          t.headers, widths, t.style, t.aligns, t.widthFunc),
                t.style, widths, "middle"),
            t.rows, 1, widths, t.style, t.aligns, t.widthFunc),
        t.style, widths, "bottom")

\* The buffer of WriteTo when rendering is over (lines 394-408).
WriteToBuf(t, buf) ==
    WriteToLines(t, BufferReset(buf),
                 measureColumns(t.headers, t.rows, t.maxWidths, t.widthFunc))

\* make([]byte, buf.Len()) and copy(result, buf.Bytes()) at the end of String.
BufferCopy(buf) == [i \in 1..Len(buf) |-> buf[i]]

\* io.Writer.Write(p) of a sink that takes at most limit bytes in all
\* (limit < 0: no limit): the bytes taken and whether it reports an error.
SinkWrite(limit, p) ==
    IF limit < 0 \/ Len(p) <= limit THEN [taken |-> p, err |-> FALSE]
    ELSE [taken |-> Take(p, limit), err |-> TRUE]

\* WriteTo counting the whole buffer whatever the sink accepted.
BufferWritten_CountAll(buf, w) ==
    [n |-> Len(buf), err |-> w.err, sunk |-> w.taken,
     buf |-> IF w.err THEN Drop(buf, Len(w.taken)) ELSE <<>>]

\* The outcome of bytes.Buffer.WriteTo once the sink has answered with w.
BufferWritten(buf, w) ==
    [n |-> Len(w.taken), err |-> w.err, sunk |-> w.taken,
     buf |-> IF w.err THEN Drop(buf, Len(w.taken)) ELSE <<>>]

\* bytes.Buffer.WriteTo(w): one Write of the unread bytes.
BufferWriteTo(buf, limit) ==
    IF Len(buf) > 0 THEN BufferWritten(buf, SinkWrite(limit, buf))
    ELSE [n |-> 0, err |-> FALSE, sunk |-> <<>>, buf |-> <<>>]

(***************************************************************************)
(* Values passed to AddRow and their conversion to bytes.                  *)
(***************************************************************************)
RECURSIVE Digits(_)
Digits(n) == IF n < 10 THEN <<48 + n>> ELSE Append(Digits(n \div 10), 48 + (n % 10))

\* strconv.AppendInt(nil, v, 10)
AppendInt(v) == IF v < 0 THEN <<45>> \o Digits(0 - v) ELSE Digits(v)

\* strconv.AppendBool(nil, v)
AppendBool(v) == IF v THEN <<116, 114, 117, 101>> ELSE <<102, 97, 108, 115, 101>>

\* The type switch of AddRow.
ConvertValue(val) ==
    IF val.type = "bytes" THEN [i \in 1..Len(val.v) |-> val.v[i]]
    ELSE IF val.type = "string" THEN val.v
    ELSE IF val.type = "int" \/ val.type = "int64" THEN AppendInt(val.n)
    ELSE IF val.type = "bool" THEN AppendBool(val.b)
    ELSE val.v

\* AddRow sizing the row by the values it was given, not by the headers.
AddRowRow_NoTruncate(values, n) ==
    [i \in 1..Len(values) |-> ConvertValue(values[i])]

\* The row AddRow builds from values for a table of n headers.
AddRowRow(values, n) ==
    [i \in 1..n |-> IF i <= Len(values) THEN ConvertValue(values[i]) ELSE <<>>]

\* The row AddRowBytes builds from values for a table of n headers.
AddRowBytesRow(values, n) ==
    [i \in 1..n |-> IF i <= Len(values) THEN values[i] ELSE <<>>]

(***************************************************************************)
(* Inputs of the model.                                                    *)
(***************************************************************************)
TokA == <<97>>

TokCJK == <<228, 184, 173>>

TokComb == <<204, 129>>

TokBad == <<255>>

TokCSI == <<27, 91, 109>>

TokRepl == <<239, 191, 189>>

TokWatch == <<226, 140, 154>>

TokCtl == <<1>>

Tokens == {TokA, TokCJK, TokComb, TokBad, TokCSI, TokRepl, TokWatch, TokCtl}

\* The buffers made of at most n tokens.
RECURSIVE CellsUpTo(_)
CellsUpTo(n) ==
    IF n = 0 THEN {<<>>}
    ELSE LET shorter == CellsUpTo(n - 1)
         IN shorter \cup {c \o t : c \in shorter, t \in Tokens}

FmtCells == CellsUpTo(MaxTokens)

FmtWidths == (0 - 1)..MaxWidth

\* The header lists a table is constructed with.
HeaderChoices == {<<>>, <<TokA>>, <<TokA \o TokA, TokCJK>>}

\* Values handed to AddRow, and the argument lists it is called with.
ValString == [type |-> "string", v |-> TokCJK \o TokWatch]

ValInt == [type |-> "int", n |-> 7]

AddRowArgs == {<<>>, <<ValString>>, <<ValInt, ValString, ValInt>>}

\* The argument lists AddRowBytes is called with.
ValBytes == TokCSI \o TokA

AddRowBytesArgs == {<<>>, <<ValBytes>>, <<ValBytes, ValBytes, ValBytes>>}

\* The (col, align) arguments of SetAlign and the (col, width) arguments of
\* SetMaxWidth: columns -1 and 2 are out of range for every table here.
SetAlignArgs ==
    {<<0 - 1, AlignRight>>, <<0, AlignCenter>>, <<1, AlignRight>>,
     <<2, AlignCenter>>}

SetMaxWidthArgs ==
    {<<0 - 1, 1>>, <<0, 1>>, <<1, 0 - 1>>, <<2, 1>>}

\* Sinks handed to WriteTo: one that accepts everything, one that fails
\* after two bytes.
SinkLimits == {0 - 1, 2}

\* What a buffer taken from the pool may still hold from its last use.
StaleBuffers == {<<120, 10>>}

(***************************************************************************)
(* The table as a state machine.                                           *)
(***************************************************************************)
\* New(headers...)
New(hs) ==
    /\ headers = hs
    /\ rows = <<>>
    /\ style = StyleSingle
    /\ aligns = [i \in 1..Len(hs) |-> AlignLeft]
    /\ maxWidths = [i \in 1..Len(hs) |-> 0]
    /\ widthFunc = DefaultWidthFunc
    /\ pool = 0

Init ==
    /\ \E hs \in HeaderChoices : New(hs)
    /\ last = [op |-> "New"]

AddRow(values) ==
    /\ Len(rows) < MaxRows
    /\ rows' = IF Len(values) = 0 THEN rows
               ELSE Append(rows, AddRowRow(values, Len(headers)))
    /\ last' = [op |-> "AddRow", values |-> values]
    /\ UNCHANGED <<headers, style, aligns, maxWidths, widthFunc, pool>>

AddRowBytes(values) ==
    /\ Len(rows) < MaxRows
    /\ rows' = IF Len(values) = 0 THEN rows
               ELSE Append(rows, AddRowBytesRow(values, Len(headers)))
    /\ last' = [op |-> "AddRowBytes", values |-> values]
    /\ UNCHANGED <<headers, style, aligns, maxWidths, widthFunc, pool>>

SetStyle(s) ==
    /\ style' = s
    /\ last' = [op |-> "SetStyle"]
    /\ UNCHANGED <<headers, rows, aligns, maxWidths, widthFunc, pool>>

\* The guard replaced by clamping the column into range.
SetAt_Clamp(xs, col, x) ==
    IF Len(xs) = 0 THEN xs
    ELSE IF col < 0 THEN [xs EXCEPT ![1] = x]
    ELSE IF col >= Len(xs) THEN [xs EXCEPT ![Len(xs)] = x]
    ELSE [xs EXCEPT ![col + 1] = x]

\* The slice after "if col >= 0 && col < len(xs) { xs[col] = x }".
SetAt(xs, col, x) ==
    IF col >= 0 /\ col < Len(xs) THEN [xs EXCEPT ![col + 1] = x] ELSE xs

SetAlign(col, align) ==
    /\ aligns' = SetAt(aligns, col, align)
    /\ last' = [op |-> "SetAlign", col |-> col, align |-> align]
    /\ UNCHANGED <<headers, rows, style, maxWidths, widthFunc, pool>>

SetMaxWidth(col, width) ==
    /\ maxWidths' = SetAt(maxWidths, col, width)
    /\ last' = [op |-> "SetMaxWidth", col |-> col, width |-> width]
    /\ UNCHANGED <<headers, rows, style, aligns, widthFunc, pool>>

SetWidthFunc(fn) ==
    /\ widthFunc' = fn
    /\ last' = [op |-> "SetWidthFunc"]
    /\ UNCHANGED <<headers, rows, style, aligns, maxWidths, pool>>

\* bufPool.Get(): a buffer left in the pool, or a new one when it is empty.
PoolGet == IF pool = 0 THEN {<<>>} ELSE StaleBuffers

\* The pool once the buffer taken by Get has been Put back.
PoolAfter == IF pool = 0 THEN 1 ELSE pool

String ==
    /\ IF Len(headers) = 0
       THEN /\ last' = [op |-> "String", out |-> <<>>]
            /\ pool' = pool
       ELSE \E buf \in PoolGet :
               /\ last' = [op |-> "String", out |-> BufferCopy(StringBuf(Table, buf))]
               /\ pool' = PoolAfter
    /\ UNCHANGED tvars

\* The result WriteTo returns for sink limit and what the sink received.
WriteToResult(limit, w) ==
    [op |-> "WriteTo", limit |-> limit, sunk |-> w.sunk, n |-> w.n, err |-> w.err]

WriteTo ==
    /\ IF Len(headers) = 0
       THEN /\ \E limit \in SinkLimits :
                  last' = [op |-> "WriteTo", limit |-> limit, sunk |-> <<>>,
                           n |-> 0, err |-> FALSE]
            /\ pool' = pool
       ELSE \E buf \in PoolGet :
               \E rendered \in {WriteToBuf(Table, buf)} :
                  \E limit \in SinkLimits :
                     /\ last' = WriteToResult(limit, BufferWriteTo(rendered, limit))
                     /\ pool' = PoolAfter
    /\ UNCHANGED tvars

Next ==
    \/ \E values \in AddRowArgs : AddRow(values)
    \/ \E values \in AddRowBytesArgs : AddRowBytes(values)
    \/ \E s \in Styles : SetStyle(s)
    \/ \E arg \in SetAlignArgs : SetAlign(arg[1], arg[2])
    \/ \E arg \in SetMaxWidthArgs : SetMaxWidth(arg[1], arg[2])
    \/ \E fn \in WidthFuncs : SetWidthFunc(fn)
    \/ String
    \/ WriteTo

Spec == Init /\ [][Next]_vars

(***************************************************************************)
(* The cell formatter on its own: a table that formats one cell.           *)
(***************************************************************************)
InitFmt ==
    /\ headers = <<>>
    /\ rows = <<>>
    /\ style = StyleSingle
    /\ aligns = <<>>
    /\ maxWidths = <<>>
    /\ widthFunc \in WidthFuncs
    /\ pool = 0
    /\ \E c \in FmtCells, w \in FmtWidths, a \in Aligns :
          last = [op |-> "args", cell |-> c, width |-> w, align |-> a]

CallAlignCell ==
    /\ last.op = "args"
    /\ last' = [op |-> "alignCell", cell |-> last.cell, width |-> last.width,
                align |-> last.align,
                out |-> alignCell(widthFunc, last.cell, last.width, last.align)]
    /\ UNCHANGED <<tvars, pool>>

NextFmt == CallAlignCell

SpecFmt == InitFmt /\ [][NextFmt]_vars

(***************************************************************************)
(* Definitions shared by the properties.                                   *)
(***************************************************************************)
\* measure(b): the display width of b under the table's width function.
Measure(b) == MeasureWidthIgnoreANSIBytesCustom(b, widthFunc)

\* The display width of the first code point of b that has positive width:
\* the least width any non-empty rendering of b can have; 0 when there is none.
RECURSIVE MinRenderableWidth(_)
MinRenderableWidth(b) ==
    IF Len(b) = 0 THEN 0
    ELSE LET n == ScanEscape(b)
             d == DecodeRune(b)
             w == IF d.r = RuneError /\ d.size = 1 THEN 1
                  ELSE CallWidthFunc(widthFunc, d.r)
         IN IF n > 0 THEN MinRenderableWidth(Drop(b, n))
            ELSE IF w > 0 THEN w
            ELSE MinRenderableWidth(Drop(b, d.size))

\* The prefixes of b that end at a code point boundary.
RECURSIVE Boundaries(_)
Boundaries(b) ==
    IF Len(b) = 0 THEN {0}
    ELSE LET size == DecodeRune(b).size
         IN {0} \cup {size + k : k \in Boundaries(Drop(b, size))}

Formatted == last.op = "alignCell"

(***************************************************************************)
(* C1. For every cell, alignment and target width that is at least the     *)
(* cell's minimum renderable width, the formatted cell measures exactly    *)
(* the target width.                                                       *)
(***************************************************************************)
C1_MeasureFormatConsistency ==
    (Formatted /\ last.width >= MinRenderableWidth(last.cell))
        => Measure(last.out) = last.width

(***************************************************************************)
(* C8. Every width decision uses the table's width function f: a cell      *)
(* that had to be truncated, measured with f, never exceeds the column     *)
(* width it was truncated to.                                              *)
(***************************************************************************)
C8_TruncationUsesWidthFunc ==
    (Formatted /\ last.width >= 0 /\ Measure(last.cell) >= last.width)
        => Measure(last.out) <= last.width

(***************************************************************************)
(* C9. When measure(cell) < target, the formatted cell is L spaces, the    *)
(* cell's bytes verbatim, then R spaces, with L + R = target - measure:    *)
(* L = 0 for left, R = 0 for right, L = floor(padding / 2) for center.     *)
(***************************************************************************)
C9_Padding ==
    (Formatted /\ Measure(last.cell) < last.width) =>
        LET padding == last.width - Measure(last.cell)
            L == IF last.align = AlignLeft THEN 0
                 ELSE IF last.align = AlignRight THEN padding
                 ELSE padding \div 2
            R == padding - L
        IN /\ last.out = Spaces(L) \o last.cell \o Spaces(R)
           /\ L <= R \/ last.align = AlignRight
           /\ Len(last.out) = Len(last.cell) + padding

\* A cell holding an escape sequence is centered with an odd padding.
C9_Witness ==
    /\ Formatted
    /\ last.align = AlignCenter
    /\ HasANSIBytes(last.cell)
    /\ Measure(last.cell) > 0
    /\ (last.width - Measure(last.cell)) = 3

(***************************************************************************)
(* C10. When a cell without escape sequences is wider than the target,     *)
(* truncation keeps whole code points only, taken greedily from the start  *)
(* until the next one would exceed the target, and the result measures at  *)
(* most the target (a target <= 0 gives an empty result).                  *)
(***************************************************************************)
C10_Truncation ==
    (Formatted /\ ~HasANSIBytes(last.cell) /\ Measure(last.cell) > last.width) =>
        LET k == Len(last.out)
            rest == Drop(last.cell, k)
        IN /\ k \in Boundaries(last.cell)
           /\ last.out = Take(last.cell, k)
           /\ Measure(last.out) <= last.width \/ last.width <= 0
           /\ last.width <= 0 => last.out = <<>>
           /\ last.width > 0 =>
                 Measure(last.out) + Measure(Take(rest, DecodeRune(rest).size))
                     > last.width

(***************************************************************************)
(* Definitions shared by the properties of the table.                      *)
(***************************************************************************)
Rendered == last.op = "String" \/ (last.op = "WriteTo" /\ ~last.err)

RenderedBytes == IF last.op = "String" THEN last.out ELSE last.sunk

\* The lines of a rendered table, without their line breaks: line k lies
\* between the (k-1)-th and the k-th line break.
LineBreaks(b) == {i \in 1..Len(b) : b[i] = 10}

LineBreakAt(b, k) ==
    IF k = 0 THEN 0
    ELSE CHOOSE i \in LineBreaks(b) :
             Cardinality({j \in LineBreaks(b) : j < i}) = k - 1

SplitLines(b) ==
    [k \in 1..Cardinality(LineBreaks(b)) |->
        SubSeq(b, LineBreakAt(b, k - 1) + 1, LineBreakAt(b, k) - 1)]

RECURSIVE SumSeq(_)
SumSeq(q) == IF Len(q) = 0 THEN 0 ELSE q[1] + SumSeq(Drop(q, 1))

SetMax(S) == CHOOSE x \in S : \A y \in S : y <= x

Widths == measureColumns(headers, rows, maxWidths, widthFunc)

\* The widest of header i and the cells at index i of the stored rows.
ColumnMax(i) ==
    SetMax({Measure(headers[i])} \cup {Measure(rows[k][i]) : k \in 1..Len(rows)})

(***************************************************************************)
(* C2. In the output of a render of a table with at least one header,      *)
(* every line has the same display width,                                  *)
(* 1 + sum(width_i + 2) + (columns - 1) + 1, with the widths of            *)
(* measureColumns.                                                         *)
(***************************************************************************)
C2_LinesMatchBorder ==
    (Rendered /\ Len(headers) >= 1) =>
        LET lines == SplitLines(RenderedBytes)
            total == 1 + SumSeq([i \in 1..Len(Widths) |-> Widths[i] + 2])
                       + (Len(headers) - 1) + 1
        IN /\ Len(RenderedBytes) > 0 /\ RenderedBytes[Len(RenderedBytes)] = 10
           /\ \A k \in 1..Len(lines) : Measure(lines[k]) = total

(***************************************************************************)
(* C3. measureColumns returns for every column the maximum of the measured *)
(* header and the measured cells of that column, replaced by maxWidths[i]  *)
(* when maxWidths[i] > 0 and the maximum exceeds it; a maximum of 0 or     *)
(* less leaves the column unclipped.  So a width is at least the header's  *)
(* width, or it equals the configured maximum.                             *)
(***************************************************************************)
C3_ColumnWidths ==
    /\ Len(Widths) = Len(headers)
    /\ \A i \in 1..Len(headers) :
          /\ Widths[i] = IF maxWidths[i] > 0 /\ ColumnMax(i) > maxWidths[i]
                         THEN maxWidths[i]
                         ELSE ColumnMax(i)
          /\ maxWidths[i] <= 0 => Widths[i] = ColumnMax(i)
          /\ Widths[i] >= Measure(headers[i]) \/ Widths[i] = maxWidths[i]

\* A rendered table with one column clipped below its header and one column,
\* with a negative maximum, sized by a cell wider than its header.
C3_Witness ==
    /\ Rendered
    /\ Len(rows) = 2
    /\ \E i \in 1..Len(headers) :
          maxWidths[i] > 0 /\ Widths[i] = maxWidths[i] /\ Widths[i] < Measure(headers[i])
    /\ \E j \in 1..Len(headers) :
          maxWidths[j] < 0 /\ Widths[j] > Measure(headers[j])

(***************************************************************************)
(* C4. Every stored row has exactly as many cells as the table has         *)
(* headers: a row given fewer values is filled with empty cells at the     *)
(* missing positions, and values beyond the header count are not stored.   *)
(***************************************************************************)
C4_RowsMatchHeaders ==
    /\ \A k \in 1..Len(rows) : Len(rows[k]) = Len(headers)
    /\ (last.op \in {"AddRow", "AddRowBytes"} /\ Len(last.values) > 0) =>
          /\ Len(rows) > 0
          /\ LET row == rows[Len(rows)]
             IN \A i \in 1..Len(row) :
                   row[i] = IF i > Len(last.values) THEN <<>>
                            ELSE IF last.op = "AddRow" THEN ConvertValue(last.values[i])
                            ELSE last.values[i]

\* A call with more values than headers happened on a table that already
\* holds a row padded with an empty cell.
C4_Witness ==
    /\ last.op = "AddRow"
    /\ Len(headers) = 2
    /\ Len(last.values) > Len(headers)
    /\ Len(rows) = 2
    /\ rows[1][2] = <<>>

(***************************************************************************)
(* C5. A render changes no table state, and two renders with no mutation   *)
(* between them return the same bytes.                                     *)
(***************************************************************************)
C5_RenderIsPure ==
    [][/\ last'.op \in {"String", "WriteTo"} => UNCHANGED tvars
       /\ (last.op = "String" /\ last'.op = "String") => last'.out = last.out
       /\ (last.op = "WriteTo" /\ last'.op = "WriteTo" /\ last'.limit = last.limit)
             => last'.sunk = last.sunk /\ last'.n = last.n
      ]_vars

\* A render of a table with rows that took its buffer from the pool.
C5_Witness ==
    /\ last.op = "String"
    /\ Len(headers) = 2
    /\ Len(rows) > 0
    /\ pool > 0

(***************************************************************************)
(* C6. For the same table, the bytes WriteTo delivers to a sink that       *)
(* accepts every write are the bytes of the string String returns, and     *)
(* WriteTo's count is the length of that string.                           *)
(***************************************************************************)
StringOf(buf) == IF Len(headers) = 0 THEN <<>> ELSE BufferCopy(StringBuf(Table, buf))

C6_WriteToEqualsString ==
    (last.op = "WriteTo" /\ last.limit < 0) =>
        \A buf \in StaleBuffers \cup {<<>>} :
            /\ last.sunk = StringOf(buf)
            /\ last.n = Len(StringOf(buf))
            /\ ~last.err

C6_Witness ==
    /\ last.op = "WriteTo"
    /\ last.limit < 0
    /\ Len(headers) = 2
    /\ Len(rows) = 2
    /\ last.n > 0

(***************************************************************************)
(* C7. SetAlign and SetMaxWidth with a column below 0 or at or beyond the  *)
(* header count change nothing; with a column in range they change only    *)
(* the entry of that column.                                               *)
(***************************************************************************)
OnlyEntry(old, new, col, x) ==
    /\ Len(new) = Len(old)
    /\ \A j \in 1..Len(old) : new[j] = IF j = col + 1 THEN x ELSE old[j]

C7_ConfigOutOfRange ==
    [][/\ last'.op = "SetAlign" =>
             /\ UNCHANGED <<headers, rows, style, maxWidths, widthFunc>>
             /\ IF last'.col < 0 \/ last'.col >= Len(headers)
                THEN aligns' = aligns
                ELSE OnlyEntry(aligns, aligns', last'.col, last'.align)
       /\ last'.op = "SetMaxWidth" =>
             /\ UNCHANGED <<headers, rows, style, aligns, widthFunc>>
             /\ IF last'.col < 0 \/ last'.col >= Len(headers)
                THEN maxWidths' = maxWidths
                ELSE OnlyEntry(maxWidths, maxWidths', last'.col, last'.width)
      ]_vars

\* SetAlign was called with a column beyond the headers of a table that has
\* headers and a configured column.
C7_Witness ==
    /\ last.op = "SetAlign"
    /\ Len(headers) > 0
    /\ last.col >= Len(headers)
    /\ \E j \in 1..Len(aligns) : aligns[j] # AlignLeft

(***************************************************************************)
(* A one-column table with a configured maximum, rendered by String: the   *)
(* state after NewFromStrings("H"), AddRow(cell), SetMaxWidth(0, w) and    *)
(* possibly SetStyle.                                                      *)
(***************************************************************************)
\* Text of single-width characters: the letters S, u, p.
AsciiLetters == {83, 117, 112}

RECURSIVE AsciiCellsUpTo(_)
AsciiCellsUpTo(n) ==
    IF n = 0 THEN {<<>>}
    ELSE LET shorter == AsciiCellsUpTo(n - 1)
         IN shorter \cup {Append(c, x) : c \in shorter, x \in AsciiLetters}

\* "Supercalifragilistic"
Supercalifragilistic ==
    <<83, 117, 112, 101, 114, 99, 97, 108, 105, 102, 114, 97, 103, 105, 108,
      105, 115, 116, 105, 99>>

ColCells == AsciiCellsUpTo(MaxAsciiLen) \cup {Supercalifragilistic}

ColMaxWidths == 3..(MaxWidth + 1)

ColHeader == <<72>>

InitCol ==
    /\ headers = <<ColHeader>>
    /\ \E c \in ColCells : rows = <<AddRowRow(<<[type |-> "string", v |-> c]>>, 1)>>
    /\ style \in Styles
    /\ aligns = <<AlignLeft>>
    /\ \E w \in ColMaxWidths :
          /\ maxWidths = SetAt(<<0>>, 0, w)
          /\ last = [op |-> "SetMaxWidth", col |-> 0, width |-> w]
    /\ widthFunc = DefaultWidthFunc
    /\ pool = 0

NextCol == String

SpecCol == InitCol /\ [][NextCol]_vars

\* The bytes between "bar, space" and "space, bar" of a line of a rendered
\* one-column table.
LineCell(line) ==
    LET bar == Len(appendRune(<<>>, style.Vertical))
    IN SubSeq(line, bar + 2, Len(line) - bar - 1)

\* The rendered cell of data row k of the last render.
DataCell(k) == LineCell(SplitLines(last.out)[3 + k])

\* Text of printable ASCII only.
IsPrintableASCII(b) == \A i \in 1..Len(b) : b[i] >= 32 /\ b[i] <= 126

(***************************************************************************)
(* C11. A column with maximum width w >= 3 that holds a cell of            *)
(* single-width characters longer than w renders that cell as its first    *)
(* w - 3 characters followed by "...", of measured width w; for w = 5 and   *)
(* "Supercalifragilistic" the rendered cell is "Su...".                    *)
(***************************************************************************)
C11_Ellipsis ==
    (/\ last.op = "String"
     /\ Len(headers) = 1 /\ Len(rows) = 1
     /\ maxWidths[1] >= 3
     /\ IsPrintableASCII(rows[1][1])
     /\ Len(rows[1][1]) > maxWidths[1]) =>
        /\ DataCell(1) = Take(rows[1][1], maxWidths[1] - 3) \o <<46, 46, 46>>
        /\ Measure(DataCell(1)) = maxWidths[1]
        /\ (rows[1][1] = Supercalifragilistic /\ maxWidths[1] = 5) =>
              DataCell(1) = <<83, 117, 46, 46, 46>>

(***************************************************************************)
(* Tables of printable ASCII text without configured maxima.               *)
(***************************************************************************)
\* "Name", "Age", "Alice", "Bob", "30", "7"
TextName == <<78, 97, 109, 101>>

TextAge == <<65, 103, 101>>

TextAlice == <<65, 108, 105, 99, 101>>

TextBob == <<66, 111, 98>>

Text30 == <<51, 48>>

Text7 == <<55>>

\* "~ x"
TextTilde == <<126, 32, 120>>

AsciiHeaderChoices == {<<>>, <<TextName, TextAge>>, <<TextTilde>>, <<<<>>, TextAge>>}

AsciiRowArgs ==
    {<<[type |-> "string", v |-> TextAlice], [type |-> "int", n |-> 30]>>,
     <<[type |-> "string", v |-> TextBob], [type |-> "int", n |-> 7]>>,
     <<[type |-> "string", v |-> TextTilde \o TextTilde]>>,
     <<[type |-> "string", v |-> <<>>], [type |-> "string", v |-> TextName],
       [type |-> "bool", b |-> TRUE]>>}

InitAscii ==
    /\ \E hs \in AsciiHeaderChoices : New(hs)
    /\ last = [op |-> "New"]

NextAscii ==
    \/ \E values \in AsciiRowArgs : AddRow(values)
    \/ \E s \in Styles : SetStyle(s)
    \/ \E arg \in SetAlignArgs : SetAlign(arg[1], arg[2])
    \/ String
    \/ WriteTo

SpecAscii == InitAscii /\ [][NextAscii]_vars

\* The number of code points of b.
RECURSIVE RuneCount(_)
RuneCount(b) == IF Len(b) = 0 THEN 0 ELSE 1 + RuneCount(Drop(b, DecodeRune(b).size))

AllPrintableASCII ==
    /\ \A i \in 1..Len(headers) : IsPrintableASCII(headers[i])
    /\ \A k \in 1..Len(rows) : \A i \in 1..Len(rows[k]) : IsPrintableASCII(rows[k][i])

NoMaxWidths == \A i \in 1..Len(maxWidths) : maxWidths[i] = 0

\* The length of the longest of header i and the cells of column i.
LongestLen(i) ==
    SetMax({Len(headers[i])} \cup {Len(rows[k][i]) : k \in 1..Len(rows)})

LineTotal == 1 + SumSeq([i \in 1..Len(Widths) |-> Widths[i] + 2]) + (Len(headers) - 1) + 1

NameAgeScenario ==
    /\ headers = <<TextName, TextAge>>
    /\ rows = <<<<TextAlice, Text30>>, <<TextBob, Text7>>>>
    /\ style = StyleASCII

\* "+-------+-----+", "| Name  | Age |", "| Alice | 30  |", "| Bob   | 7   |"
NameAgeLines ==
    << <<43, 45, 45, 45, 45, 45, 45, 45, 43, 45, 45, 45, 45, 45, 43>>,
       <<124, 32, 78, 97, 109, 101, 32, 32, 124, 32, 65, 103, 101, 32, 124>>,
       <<43, 45, 45, 45, 45, 45, 45, 45, 43, 45, 45, 45, 45, 45, 43>>,
       <<124, 32, 65, 108, 105, 99, 101, 32, 124, 32, 51, 48, 32, 32, 124>>,
       <<124, 32, 66, 111, 98, 32, 32, 32, 124, 32, 55, 32, 32, 32, 124>>,
       <<43, 45, 45, 45, 45, 45, 45, 45, 43, 45, 45, 45, 45, 45, 43>> >>

(***************************************************************************)
(* C12. For a table of printable ASCII text without maxima, every column   *)
(* width is the length of its longest header or cell, and a render has     *)
(* rows + 4 lines of exactly 1 + sum(width_i + 2) + (columns - 1) + 1      *)
(* characters each.  For headers Name, Age and rows (Alice, 30), (Bob, 7)  *)
(* in ASCII style the widths are 5 and 3 and the six lines are 15          *)
(* characters wide; with the default alignment they are the lines above.   *)
(***************************************************************************)
C12_AsciiLayout ==
    (AllPrintableASCII /\ NoMaxWidths) =>
        /\ \A i \in 1..Len(headers) : Widths[i] = LongestLen(i)
        /\ (Rendered /\ Len(headers) >= 1) =>
              LET lines == SplitLines(RenderedBytes)
              IN /\ Len(lines) = Len(rows) + 4
                 /\ \A k \in 1..Len(lines) : RuneCount(lines[k]) = LineTotal
                 /\ style = StyleASCII =>
                       \A k \in 1..Len(lines) : Len(lines[k]) = LineTotal
                 /\ NameAgeScenario =>
                       /\ Widths = <<5, 3>>
                       /\ Len(lines) = 6
                       /\ \A k \in 1..6 : Len(lines[k]) = 15
                       /\ aligns = <<AlignLeft, AlignLeft>> => lines = NameAgeLines

\* The Name/Age table was rendered by String in ASCII style.
C12_Witness ==
    /\ last.op = "String"
    /\ NameAgeScenario
    /\ aligns = <<AlignLeft, AlignLeft>>
    /\ Len(last.out) = 96

(***************************************************************************)
(* C13. Formatting is idempotent: formatting the formatted cell again to   *)
(* the same width and alignment returns the same bytes.                    *)
(***************************************************************************)
C13_FormatIdempotent ==
    Formatted => alignCell(widthFunc, last.out, last.width, last.align) = last.out

(***************************************************************************)
(* C14. Truncation is monotone in the target width: for a cell and column  *)
(* widths 0 <= w1 < w2 < measure(cell), measure(truncate(cell, w1)) <=     *)
(* measure(truncate(cell, w2)) <= w2.  (A column width is never negative.) *)
(***************************************************************************)
C14_TruncationMonotone ==
    (Formatted /\ last.width > 0 /\ last.width < Measure(last.cell)) =>
        /\ last.out = truncateWithANSI(widthFunc, last.cell, last.width)
        /\ Measure(last.out) <= last.width
        /\ \A w1 \in FmtWidths :
              (0 <= w1 /\ w1 < last.width) =>
                 Measure(truncateWithANSI(widthFunc, last.cell, w1)) <= Measure(last.out)

(***************************************************************************)
(* The width accumulator on its own: one text and one escape sequence are  *)
(* measured apart and joined, and as the only cell of a column.            *)
(***************************************************************************)
\* Unfinished escape sequences and a parameter byte: ESC, ESC '[', '3'.
TokEsc == <<27>>

TokOpen == <<27, 91>>

TokParam == <<51>>

MeasureTokens == Tokens \cup {TokEsc, TokOpen, TokParam}

RECURSIVE TextsUpTo(_)
TextsUpTo(n) ==
    IF n = 0 THEN {<<>>}
    ELSE LET shorter == TextsUpTo(n - 1)
         IN shorter \cup {c \o t : c \in shorter, t \in MeasureTokens}

\* "Red"
TextRed == <<82, 101, 100>>

MeasureTexts == TextsUpTo(MaxTokens) \cup {TextRed}

\* ESC[31m, ESC[0m, ESC[1;31m, ESC[m, ESC[H
EscRed == <<27, 91, 51, 49, 109>>

EscReset == <<27, 91, 48, 109>>

EscBoldRed == <<27, 91, 49, 59, 51, 49, 109>>

EscapeSequences == {EscRed, EscReset, EscBoldRed, TokCSI, <<27, 91, 72>>}

\* The width of the single column of a table with an empty header and the
\* one cell given.
ColumnOf(cell, f) == measureColumns(<<<<>>>>, <<<<cell>>>>, <<0>>, f)[1]

InitMeasure ==
    /\ headers = <<>>
    /\ rows = <<>>
    /\ style = StyleSingle
    /\ aligns = <<>>
    /\ maxWidths = <<>>
    /\ widthFunc \in WidthFuncs
    /\ pool = 0
    /\ \E t \in MeasureTexts, e \in EscapeSequences :
          last = [op |-> "texts", text |-> t, esc |-> e]

CallMeasure ==
    /\ last.op = "texts"
    /\ last' = [op |-> "measure", text |-> last.text, esc |-> last.esc,
                plain |-> MeasureWidthIgnoreANSIBytesCustom(last.text, widthFunc),
                before |-> MeasureWidthIgnoreANSIBytesCustom(last.esc \o last.text,
                                                             widthFunc),
                after |-> MeasureWidthIgnoreANSIBytesCustom(last.text \o last.esc,
                                                            widthFunc),
                wrapped |-> MeasureWidthIgnoreANSIBytesCustom(
                                last.esc \o last.text \o EscReset, widthFunc),
                column |-> ColumnOf(last.esc \o last.text \o EscReset, widthFunc),
                bare |-> ColumnOf(last.text, widthFunc)]
    /\ UNCHANGED <<tvars, pool>>

NextMeasure == CallMeasure

SpecMeasure == InitMeasure /\ [][NextMeasure]_vars

Measured == last.op = "measure"

\* An escape sequence that starts at the front of b and reaches the end of
\* b without its final byte.
Unterminated(b) == ScanEscape(b) > 0 /\ SkipParams(b, 3) > Len(b)

\* No escape sequence of b is left unfinished at the end of b.
NoOpenEscape(b) == \A i \in 1..Len(b) : ~Unterminated(Drop(b, i - 1))

MaxUnicode == 1114111

\* The entries of both range tables, zero-width entries first.
AllRanges == zeroWidthRanges \o wideRanges

\* Every code point up to MaxDenseRune, and around the bounds of every
\* table entry, the surrogates and the end of Unicode.
RuneSamples ==
    (0..MaxDenseRune)
      \cup UNION {{AllRanges[i][1] - 1, AllRanges[i][1], AllRanges[i][2],
                   AllRanges[i][2] + 1} : i \in 1..Len(AllRanges)}
      \cup {55296, 57343, RuneError, MaxUnicode}

InitWidth ==
    /\ headers = <<>>
    /\ rows = <<>>
    /\ style = StyleSingle
    /\ aligns = <<>>
    /\ maxWidths = <<>>
    /\ widthFunc = DefaultWidthFunc
    /\ pool = 0
    /\ \E r \in RuneSamples : last = [op |-> "rune", r |-> r]

CallRuneWidth ==
    /\ last.op = "rune"
    /\ last' = [op |-> "RuneWidth", r |-> last.r,
                width |-> CallWidthFunc(widthFunc, last.r)]
    /\ UNCHANGED <<tvars, pool>>

NextWidth == CallRuneWidth

SpecWidth == InitWidth /\ [][NextWidth]_vars

\* Two table entries share no code point.
Disjoint(a, b) == a[2] < b[1] \/ b[2] < a[1]

(***************************************************************************)
(* C16. RuneWidth gives every code point width 0, 1 or 2, printable ASCII  *)
(* 0x20-0x7E width 1 and the control codes below 0x20 width 0; the entries *)
(* of the zero-width and the wide table are pairwise disjoint, so no code  *)
(* point matches more than one entry.                                      *)
(***************************************************************************)
C16_WidthTotal ==
    /\ \A i, j \in 1..Len(AllRanges) : i # j => Disjoint(AllRanges[i], AllRanges[j])
    /\ \A i \in 1..Len(AllRanges) :
          AllRanges[i][1] <= AllRanges[i][2] /\ AllRanges[i][3] \in {0, 2}
    /\ last.op = "RuneWidth" =>
          /\ last.width \in {0, 1, 2}
          /\ (last.r >= 32 /\ last.r <= 126) => last.width = 1
          /\ (last.r >= 0 /\ last.r < 32) => last.width = 0
          /\ Cardinality(Matches(last.r, AllRanges)) <= 1
          /\ Matches(last.r, zeroWidthRanges) # {} => last.width = 0
          /\ Matches(last.r, wideRanges) # {} => last.width = 2
          /\ (last.r >= 128 /\ Matches(last.r, AllRanges) = {}) => last.width = 1

\* The width of a wide code point at the end of a table entry was computed.
C16_Witness ==
    /\ last.op = "RuneWidth"
    /\ last.r = 40959
    /\ last.width = 2

(***************************************************************************)
(* StringWidthBytesCustom pass by pass: b is what is left of the buffer,   *)
(* width the running total, front the buffer before the last pass.         *)
(***************************************************************************)
InitLoop ==
    /\ headers = <<>>
    /\ rows = <<>>
    /\ style = StyleSingle
    /\ aligns = <<>>
    /\ maxWidths = <<>>
    /\ widthFunc \in WidthFuncs
    /\ pool = 0
    /\ \E t \in FmtCells :
          last = [op |-> "loop", text |-> t, b |-> t, width |-> 0, front |-> <<>>,
                  passes |-> 0]

\* The width and the buffer after one pass over b, d being the decoded front.
LoopPass(b, width, f, d) ==
    IF d.r = RuneError
    THEN [width |-> width + 1, b |-> Drop(b, 1)]
    ELSE [width |-> width + CallWidthFunc(f, d.r), b |-> Drop(b, d.size)]

\* One pass of "for len(b) > 0".
StepStringWidth ==
    /\ last.op = "loop"
    /\ Len(last.b) > 0
    /\ \E p \in {LoopPass(last.b, last.width, widthFunc, DecodeRune(last.b))} :
          last' = [op |-> "loop", text |-> last.text, b |-> p.b, width |-> p.width,
                   front |-> last.b, passes |-> last.passes + 1]
    /\ UNCHANGED <<tvars, pool>>

\* "return width" once the buffer is used up.
ReturnStringWidth ==
    /\ last.op = "loop"
    /\ Len(last.b) = 0
    /\ last' = [op |-> "StringWidthBytesCustom", text |-> last.text, b |-> last.b,
                width |-> last.width, front |-> last.front, passes |-> last.passes]
    /\ UNCHANGED <<tvars, pool>>

NextLoop == StepStringWidth \/ ReturnStringWidth

SpecLoop == InitLoop /\ [][NextLoop]_vars

\* The first bytes of b are no valid encoding of a code point.
InvalidFront(b) == DecodeRune(b).r = RuneError /\ DecodeRune(b).size = 1

\* The width added and the bytes consumed by the last pass.
PassWidth == last.width - StringWidthBytesCustom(
                 Take(last.text, Len(last.text) - Len(last.front)), widthFunc)

PassBytes == Len(last.front) - Len(last.b)

(***************************************************************************)
(* C17. Measuring any byte buffer ends and does not fail: every pass       *)
(* consumes at least one byte; an invalid encoding byte counts as one      *)
(* unit of width 1 and advances the scan by one byte; a validly encoded    *)
(* code point adds width_fn(code point) once and advances by its encoded   *)
(* length; with the default width function the result is not negative.     *)
(***************************************************************************)
C17_MeasureTerminates ==
    /\ last.op \in {"loop", "StringWidthBytesCustom"} =>
          /\ last.passes + Len(last.b) <= Len(last.text)
          /\ widthFunc = DefaultWidthFunc => last.width >= 0
          /\ last.passes > 0 =>
                /\ PassBytes >= 1
                /\ last.b = Drop(last.front, PassBytes)
                /\ IF InvalidFront(last.front)
                   THEN PassBytes = 1 /\ PassWidth = 1
                   ELSE /\ PassBytes = DecodeRune(last.front).size
                        /\ PassWidth = CallWidthFunc(widthFunc, DecodeRune(last.front).r)
    /\ last.op = "StringWidthBytesCustom" =>
          last.width = StringWidthBytesCustom(last.text, widthFunc)

(***************************************************************************)
(* C18. When the sink of WriteTo fails part-way, WriteTo returns the error *)
(* with the number of bytes the sink accepted; those bytes, the first of   *)
(* the rendered table, stay written; the table is unchanged, and a render  *)
(* that follows produces the full output.                                  *)
(***************************************************************************)
C18_SinkFailure ==
    [][/\ (last'.op = "WriteTo" /\ last'.err) =>
             /\ UNCHANGED tvars
             /\ last'.n = Len(last'.sunk)
             /\ last'.n = last'.limit
             /\ last'.sunk = Take(StringOf(<<>>), last'.n)
             /\ Len(StringOf(<<>>)) > last'.n
       /\ (last.op = "WriteTo" /\ last.err /\ last'.op = "String") =>
             /\ last'.out = StringOf(<<>>)
             /\ Take(last'.out, last.n) = last.sunk
             /\ Len(last'.out) > last.n
       /\ (last.op = "WriteTo" /\ last.err /\ last'.op = "WriteTo" /\ ~last'.err) =>
             last'.sunk = StringOf(<<>>)
      ]_vars

\* WriteTo failed after two bytes on a table with two rows, with a buffer
\* taken from the pool.
C18_Witness ==
    /\ last.op = "WriteTo"
    /\ last.err
    /\ last.n = 2
    /\ Len(rows) = 2
    /\ Len(headers) = 2
    /\ pool > 0

(***************************************************************************)
(* Concurrent renders.  Several goroutines call String or WriteTo on one   *)
(* table that nobody mutates.  Each call is followed statement by          *)
(* statement: Get, Reset, measureColumns, the border and row lines, the    *)
(* copy or the write to the sink, and the deferred Put.  last holds the    *)
(* goroutines' frames (g), the buffers the pool's New has made (bufs,      *)
(* made) and how many times each lies in the pool (free).                  *)
(***************************************************************************)
MaxRenders == 2

Renders == 1..MaxRenders

\* The *bytes.Buffer objects defaultBufPool.New can have made.
BufferIds == 1..MaxRenders

\* The calls a goroutine makes: String, or WriteTo with a sink.
RenderCalls == {<<"String", 0 - 1>>} \cup {<<"WriteTo", limit>> : limit \in SinkLimits}

\* The rows of the rendered tables, as AddRow received them.
RenderRowChoices ==
    {<<>>, <<<<ValString>>>>, <<<<ValInt, ValString, ValInt>>, <<ValString>>>>}

\* No value returned yet.
NoReturn == [done |-> FALSE, out |-> <<>>, n |-> 0, err |-> FALSE]

\* A goroutine outside String and WriteTo.
Idle == [pc |-> "idle", call |-> "none", limit |-> 0 - 1, buf |-> 0,
         widths |-> <<>>, i |-> 0, ret |-> NoReturn]

\* sync.Pool.Get handing out the pooled buffer id.
PoolTake_Keep(free, id) == free

PoolTake(free, id) == [free EXCEPT ![id] = @ - 1]

\* sync.Pool.Put of buffer id.
PoolPut_Twice(free, id) == [free EXCEPT ![id] = @ + 2]

PoolPut(free, id) == [free EXCEPT ![id] = @ + 1]

InitRender ==
    /\ \E hs \in HeaderChoices : \E rs \in RenderRowChoices :
          /\ headers = hs
          /\ rows = [k \in 1..Len(rs) |-> AddRowRow(rs[k], Len(hs))]
          /\ aligns = [i \in 1..Len(hs) |-> AlignLeft]
          /\ maxWidths = [i \in 1..Len(hs) |-> 0]
    /\ style \in Styles
    /\ widthFunc = DefaultWidthFunc
    /\ pool = 0
    /\ last = [op |-> "render", g |-> [p \in Renders |-> Idle],
               bufs |-> [id \in BufferIds |-> <<>>], made |-> 0,
               free |-> [id \in BufferIds |-> 0]]

\* The frame of goroutine p and the buffer its buf points to.
Frame(p) == last.g[p]

FrameBuf(p) == last.bufs[last.g[p].buf]

\* Goroutine p enters String or WriteTo; with no headers the call returns
\* at once (lines 353-355, 388-390).
CallRender(p, call, limit) ==
    /\ Frame(p).pc = "idle"
    /\ last' = [last EXCEPT !.g[p] =
                   IF Len(headers) = 0
                   THEN [Idle EXCEPT !.call = call, !.limit = limit,
                                     !.ret = [NoReturn EXCEPT !.done = TRUE]]
                   ELSE [Idle EXCEPT !.pc = "Get", !.call = call, !.limit = limit]]
    /\ UNCHANGED <<tvars, pool>>

\* t.bufPool.Get() answered with a buffer lying in the pool.
GetPooled(p, id) ==
    /\ Frame(p).pc = "Get"
    /\ last.free[id] > 0
    /\ last' = [last EXCEPT !.g[p].pc = "Reset", !.g[p].buf = id,
                            !.free = PoolTake(last.free, id)]
    /\ pool' = SumSeq(PoolTake(last.free, id))
    /\ UNCHANGED tvars

\* t.bufPool.Get() answered by New: a buffer nobody has seen.
GetNew(p) ==
    /\ Frame(p).pc = "Get"
    /\ last.made < MaxRenders
    /\ last' = [last EXCEPT !.g[p].pc = "Reset", !.g[p].buf = last.made + 1,
                            !.made = last.made + 1,
                            !.bufs[last.made + 1] = <<>>]
    /\ UNCHANGED <<tvars, pool>>

\* Goroutine p at pc from writes b into its buffer and goes to pc to.
BufferStep(p, from, to, b) ==
    /\ Frame(p).pc = from
    /\ last' = [last EXCEPT !.g[p].pc = to, !.bufs[Frame(p).buf] = b]
    /\ UNCHANGED <<tvars, pool>>

ResetBuffer(p) == BufferStep(p, "Reset", "measure", BufferReset(FrameBuf(p)))

MeasureColumns(p) ==
    /\ Frame(p).pc = "measure"
    /\ last' = [last EXCEPT !.g[p].pc = "top",
                            !.g[p].widths = measureColumns(headers, rows, maxWidths, widthFunc)]
    /\ UNCHANGED <<tvars, pool>>

RenderTop(p) ==
    BufferStep(p, "top", "header",
               renderBorder(FrameBuf(p), style, Frame(p).widths, "top"))

RenderHeader(p) ==
    BufferStep(p, "header", "middle",
               renderRow(FrameBuf(p), headers, Frame(p).widths, style, aligns, widthFunc))

RenderMiddle(p) ==
    /\ Frame(p).pc = "middle"
    /\ last' = [last EXCEPT !.g[p].pc = IF Len(rows) > 0 THEN "rows" ELSE "bottom",
                            !.g[p].i = 1,
                            !.bufs[Frame(p).buf] =
                                renderBorder(FrameBuf(p), style, Frame(p).widths, "middle")]
    /\ UNCHANGED <<tvars, pool>>

\* One pass of for _, row := range t.rows.
RenderDataRow(p) ==
    /\ Frame(p).pc = "rows"
    /\ last' = [last EXCEPT !.g[p].pc = IF Frame(p).i < Len(rows) THEN "rows" ELSE "bottom",
                            !.g[p].i = Frame(p).i + 1,
                            !.bufs[Frame(p).buf] =
                                renderRow(FrameBuf(p), rows[Frame(p).i], Frame(p).widths,
                                          style, aligns, widthFunc)]
    /\ UNCHANGED <<tvars, pool>>

RenderBottom(p) ==
    BufferStep(p, "bottom", "finish",
               renderBorder(FrameBuf(p), style, Frame(p).widths, "bottom"))

\* String's copy of the buffer: the value it returns.
FinishString(p) ==
    /\ Frame(p).pc = "finish"
    /\ Frame(p).call = "String"
    /\ last' = [last EXCEPT !.g[p].pc = "Put",
                            !.g[p].ret = [done |-> TRUE, out |-> BufferCopy(FrameBuf(p)),
                                          n |-> 0, err |-> FALSE]]
    /\ UNCHANGED <<tvars, pool>>

\* The frame and buffer of p after buf.WriteTo(w) has answered with w.
Wrote(p, w) ==
    [last EXCEPT !.g[p].pc = "Put",
                 !.g[p].ret = [done |-> TRUE, out |-> w.sunk, n |-> w.n, err |-> w.err],
                 !.bufs[Frame(p).buf] = w.buf]

\* WriteTo's buf.WriteTo(w): the values it returns, error or not.
FinishWriteTo(p) ==
    /\ Frame(p).pc = "finish"
    /\ Frame(p).call = "WriteTo"
    /\ last' = Wrote(p, BufferWriteTo(FrameBuf(p), Frame(p).limit))
    /\ UNCHANGED <<tvars, pool>>

\* The deferred t.bufPool.Put(buf), after which the call has returned.
DeferredPut(p) ==
    /\ Frame(p).pc = "Put"
    /\ last' = [last EXCEPT !.g[p].pc = "idle", !.g[p].buf = 0,
                            !.g[p].widths = <<>>, !.g[p].i = 0,
                            !.free = PoolPut(last.free, Frame(p).buf)]
    /\ pool' = SumSeq(PoolPut(last.free, Frame(p).buf))
    /\ UNCHANGED tvars

NextRender ==
    \/ \E p \in Renders : \E c \in RenderCalls : CallRender(p, c[1], c[2])
    \/ \E p \in Renders : \E id \in BufferIds : GetPooled(p, id)
    \/ \E p \in Renders : GetNew(p)
    \/ \E p \in Renders : ResetBuffer(p)
    \/ \E p \in Renders : MeasureColumns(p)
    \/ \E p \in Renders : RenderTop(p)
    \/ \E p \in Renders : RenderHeader(p)
    \/ \E p \in Renders : RenderMiddle(p)
    \/ \E p \in Renders : RenderDataRow(p)
    \/ \E p \in Renders : RenderBottom(p)
    \/ \E p \in Renders : FinishString(p)
    \/ \E p \in Renders : FinishWriteTo(p)
    \/ \E p \in Renders : DeferredPut(p)

SpecRender == InitRender /\ [][NextRender]_vars

\* What a render alone on the table returns: String's text, and WriteTo's
\* count, error and the bytes its sink received.
LoneWriteTo(limit) ==
    IF Len(headers) = 0 THEN [n |-> 0, err |-> FALSE, sunk |-> <<>>, buf |-> <<>>]
    ELSE BufferWriteTo(WriteToBuf(Table, <<>>), limit)

ReturnsAsAlone(f) ==
    IF f.call = "String" THEN f.ret.out = StringOf(<<>>)
    ELSE /\ f.ret.out = LoneWriteTo(f.limit).sunk
         /\ f.ret.n = LoneWriteTo(f.limit).n
         /\ f.ret.err = LoneWriteTo(f.limit).err

\* The goroutines whose buf points to buffer id.
Holders(id) == {p \in Renders : last.g[p].buf = id}

(***************************************************************************)
(* C19. In every interleaving of concurrent String and WriteTo calls on a  *)
(* table nobody mutates, each call returns what a render alone would       *)
(* return, and no scratch buffer is held by two renders at once.           *)
(***************************************************************************)
C19_ConcurrentRenders ==
    last.op = "render" =>
        /\ \A p \in Renders : last.g[p].ret.done => ReturnsAsAlone(last.g[p])
        /\ \A id \in BufferIds : Cardinality(Holders(id)) <= 1

\* One String call has its result and still holds its buffer while another
\* render, on a buffer of its own, is between two data rows.
C19_Witness ==
    /\ last.op = "render"
    /\ last.g[1].pc = "Put"
    /\ last.g[1].call = "String"
    /\ Len(last.g[1].ret.out) > 0
    /\ last.g[2].pc = "rows"
    /\ last.g[2].i = 2
    /\ last.g[2].ret.done = FALSE
    /\ last.made = MaxRenders

(***************************************************************************)
(* C20. Every render that takes a scratch buffer from the pool puts it     *)
(* back exactly once before it returns, on every exit path, the failure of *)
(* WriteTo's sink included: each buffer is either with one render in       *)
(* progress or once in the pool, and a returned call holds none.           *)
(***************************************************************************)
C20_BufferReturnedOnce ==
    last.op = "render" =>
        /\ \A id \in BufferIds :
              last.free[id] + Cardinality(Holders(id)) = (IF id <= last.made THEN 1 ELSE 0)
        /\ \A p \in Renders :
              (last.g[p].buf = 0) = (last.g[p].pc \in {"idle", "Get"})

\* A WriteTo whose sink failed has returned, and the buffer it used lies in
\* the pool with the bytes the sink did not take.
C20_Witness ==
    /\ last.op = "render"
    /\ last.g[1].pc = "idle"
    /\ last.g[1].call = "WriteTo"
    /\ last.g[1].ret.done
    /\ last.g[1].ret.err
    /\ last.made = 1
    /\ last.free[1] = 1
    /\ Len(last.bufs[1]) > 0

(***************************************************************************)
(* Caller buffers.  Byte slices are references into a heap: last.heap maps *)
(* each buffer to its bytes, buffers 1..Len(CallerBuffers) are the         *)
(* caller's, last.hrefs and last.rrefs are the buffers t.headers and       *)
(* t.rows point to.  headers and rows are what a render reads through      *)
(* those references.  last.passedHeaders and last.passedRows are the bytes *)
(* the caller's arguments held when each call was made.                    *)
(***************************************************************************)
CallerBuffers == <<TokA, TokCJK>>

CallerIds == 1..Len(CallerBuffers)

\* The byte a caller writes into a buffer it passed in.
MutationBytes == {120}

\* New's arguments, as caller buffers.
NewArgs == {<<>>, <<1>>, <<1, 2>>, <<2, 2>>}

\* NewFromStrings' arguments.
NewFromStringsArgs == {<<TokA>>, <<TokA, TokCJK>>}

\* AddRowBytes' arguments, as caller buffers.
HeapAddRowBytesArgs == {<<>>, <<1>>, <<2, 1>>, <<1, 2, 1>>}

\* AddRow's arguments: []byte values are caller buffers.
HeapAddRowArgs ==
    {<<>>,
     <<[type |-> "bytes", ref |-> 2], [type |-> "int", n |-> 7]>>,
     <<[type |-> "string", v |-> TokA], [type |-> "bytes", ref |-> 1]>>}

\* The stored cell aliasing the caller's buffer id.
CopyOf_Alias(heap, id, fresh) == [ref |-> id, bytes |-> heap[id]]

\* make([]byte, len(v)) and copy(.., v): a new buffer fresh with the bytes
\* of buffer id.
CopyOf(heap, id, fresh) == [ref |-> fresh, bytes |-> heap[id]]

\* The value AddRow's switch sees for argument val.
HeapValue(heap, val) ==
    IF val.type = "bytes" THEN [type |-> "bytes", v |-> heap[val.ref]] ELSE val

\* The cell AddRow stores for argument val.
HeapConvert(heap, val, fresh) ==
    IF val.type = "bytes" THEN CopyOf(heap, val.ref, fresh)
    ELSE [ref |-> fresh, bytes |-> ConvertValue(val)]

\* The cells New stores for its headers.
HeapNewCells(heap, ids) ==
    [i \in 1..Len(ids) |-> CopyOf(heap, ids[i], Len(heap) + i)]

\* The cells AddRowBytes stores for a table of n headers.
HeapAddRowBytesCells(heap, ids, n) ==
    [i \in 1..n |-> IF i <= Len(ids) THEN CopyOf(heap, ids[i], Len(heap) + i)
                    ELSE [ref |-> Len(heap) + i, bytes |-> <<>>]]

\* The cells AddRow stores for a table of n headers.
HeapAddRowCells(heap, values, n) ==
    [i \in 1..n |-> IF i <= Len(values) THEN HeapConvert(heap, values[i], Len(heap) + i)
                    ELSE [ref |-> Len(heap) + i, bytes |-> <<>>]]

\* The heap once the buffers of cells are allocated, and their references.
Allocated(heap, cells) == heap \o [i \in 1..Len(cells) |-> cells[i].bytes]

Refs(cells) == [i \in 1..Len(cells) |-> cells[i].ref]

\* The bytes behind a list of references, and behind the rows' references.
Deref(heap, refs) == [i \in 1..Len(refs) |-> heap[refs[i]]]

DerefRows(heap, rrefs) == [k \in 1..Len(rrefs) |-> Deref(heap, rrefs[k])]

\* The table of hrefs over heap, with what the caller passed.
HeapNew(heap, hrefs, passed) ==
    /\ headers = Deref(heap, hrefs)
    /\ rows = <<>>
    /\ style = StyleSingle
    /\ aligns = [i \in 1..Len(hrefs) |-> AlignLeft]
    /\ maxWidths = [i \in 1..Len(hrefs) |-> 0]
    /\ widthFunc = DefaultWidthFunc
    /\ pool = 0
    /\ last = [op |-> "New", heap |-> heap, hrefs |-> hrefs, rrefs |-> <<>>,
               passedHeaders |-> passed, passedRows |-> <<>>, out |-> <<>>]

InitHeap ==
    \/ \E ids \in NewArgs :
          HeapNew(Allocated(CallerBuffers, HeapNewCells(CallerBuffers, ids)),
                  Refs(HeapNewCells(CallerBuffers, ids)),
                  Deref(CallerBuffers, ids))
    \/ \E hs \in NewFromStringsArgs :
          HeapNew(CallerBuffers \o hs,
                  [i \in 1..Len(hs) |-> Len(CallerBuffers) + i], hs)

\* The step of an add that stores cells, the caller having passed row.
HeapStore(op, cells, row) ==
    /\ rows' = DerefRows(Allocated(last.heap, cells), Append(last.rrefs, Refs(cells)))
    /\ last' = [last EXCEPT !.op = op,
                            !.heap = Allocated(last.heap, cells),
                            !.rrefs = Append(last.rrefs, Refs(cells)),
                            !.passedRows = Append(last.passedRows, row)]
    /\ UNCHANGED <<headers, style, aligns, maxWidths, widthFunc, pool>>

\* An add with no values returns the table as it is.
HeapNoStore(op) ==
    /\ last' = [last EXCEPT !.op = op]
    /\ UNCHANGED <<tvars, pool>>

HeapAddRowBytes(ids) ==
    /\ Len(rows) < MaxRows
    /\ IF Len(ids) = 0 THEN HeapNoStore("AddRowBytes")
       ELSE HeapStore("AddRowBytes",
                      HeapAddRowBytesCells(last.heap, ids, Len(headers)),
                      AddRowBytesRow(Deref(last.heap, ids), Len(headers)))

HeapAddRow(values) ==
    /\ Len(rows) < MaxRows
    /\ IF Len(values) = 0 THEN HeapNoStore("AddRow")
       ELSE HeapStore("AddRow",
                      HeapAddRowCells(last.heap, values, Len(headers)),
                      AddRowRow([i \in 1..Len(values) |-> HeapValue(last.heap, values[i])],
                                Len(headers)))

\* The heap after the caller wrote byte b at index i of its buffer id.
Mutated(heap, id, i, b) == [heap EXCEPT ![id][i] = b]

\* The caller writes into a buffer it has passed, or will pass, to the table.
CallerMutate(id, i, b) ==
    /\ last.heap[id][i] # b
    /\ headers' = Deref(Mutated(last.heap, id, i, b), last.hrefs)
    /\ rows' = DerefRows(Mutated(last.heap, id, i, b), last.rrefs)
    /\ last' = [last EXCEPT !.op = "mutate", !.heap = Mutated(last.heap, id, i, b)]
    /\ UNCHANGED <<style, aligns, maxWidths, widthFunc, pool>>

\* String on the table, reading the cells through their references.
HeapString ==
    /\ IF Len(headers) = 0
       THEN /\ last' = [last EXCEPT !.op = "String", !.out = <<>>]
            /\ pool' = pool
       ELSE \E buf \in PoolGet :
               /\ last' = [last EXCEPT !.op = "String",
                                       !.out = BufferCopy(StringBuf(Table, buf))]
               /\ pool' = PoolAfter
    /\ UNCHANGED tvars

NextHeap ==
    \/ \E ids \in HeapAddRowBytesArgs : HeapAddRowBytes(ids)
    \/ \E values \in HeapAddRowArgs : HeapAddRow(values)
    \/ \E id \in CallerIds : \E i \in 1..Len(last.heap[id]) : \E b \in MutationBytes :
          CallerMutate(id, i, b)
    \/ HeapString

SpecHeap == InitHeap /\ [][NextHeap]_vars

\* The table whose cells are what the caller passed when it made each call.
PassedTable ==
    [headers |-> last.passedHeaders, rows |-> last.passedRows, style |-> style,
     aligns |-> aligns, maxWidths |-> maxWidths, widthFunc |-> widthFunc]

(***************************************************************************)
(* C21. The headers and cells stored by New, NewFromStrings, AddRow and    *)
(* AddRowBytes are copies: whatever the caller writes afterwards into a    *)
(* buffer it passed, the stored cells are the bytes passed at the time of  *)
(* the call, and every later render is the render of those bytes.          *)
(***************************************************************************)
C21_StoredCopies ==
    /\ headers = last.passedHeaders
    /\ rows = last.passedRows
    /\ (last.op = "String" /\ Len(headers) > 0) =>
           last.out = BufferCopy(StringBuf(PassedTable, <<>>))

\* A render after the caller overwrote buffers passed to New and to AddRowBytes.
C21_Witness ==
    /\ last.op = "String"
    /\ Len(last.out) > 0
    /\ Len(rows) = 2
    /\ last.hrefs # <<>>
    /\ \E id \in CallerIds : last.heap[id] # CallerBuffers[id]
    /\ \E id \in CallerIds : last.heap[id] # CallerBuffers[id] /\ last.passedHeaders[1] = CallerBuffers[id]
    /\ \E k \in 1..2 : last.passedRows[k][1] = CallerBuffers[2] /\ last.heap[2] # CallerBuffers[2]

(***************************************************************************)
(* C22. For a cell that contains escape sequences and is not narrower than *)
(* the target width, the formatter returns the cell itself when the        *)
(* measured width of its escape-stripped content is at most the target,    *)
(* and otherwise the truncation of the stripped content, in which no       *)
(* escape sequence is left.                                                *)
(***************************************************************************)
C22_StyledTruncation ==
    (/\ Formatted
     /\ HasANSIBytes(last.cell)
     /\ Measure(last.cell) >= last.width) =>
        IF Measure(StripANSIBytes(last.cell)) <= last.width
        THEN last.out = last.cell
        ELSE /\ last.out = TruncateToWidthBytes(StripANSIBytes(last.cell), last.width)
             /\ ~HasANSIBytes(last.out)

(***************************************************************************)
(* C23. When the measured width of a cell equals the target width, the     *)
(* formatter returns the cell's bytes unchanged, whatever the cell (also a *)
(* non-empty cell of measured width 0) and whatever the target width (0    *)
(* included).                                                              *)
(***************************************************************************)
C23_EqualWidthUnchanged ==
    (Formatted /\ Measure(last.cell) = last.width) => last.out = last.cell

(***************************************************************************)
(* Tables whose cells may hold a line feed.                                *)
(***************************************************************************)
TokLF == <<10>>

LineHeaderChoices == {<<>>, <<TokA>>, <<TokA \o TokA, TokCJK>>}

\* AddRowBytes' arguments: cells with and without a line feed.
LineRowArgs == {<<>>, <<TokA>>, <<TokCJK, TokA \o TokA>>, <<TokA \o TokLF \o TokA>>}

InitLines ==
    /\ \E hs \in LineHeaderChoices : New(hs)
    /\ last = [op |-> "New"]

NextLines ==
    \/ \E values \in LineRowArgs : AddRowBytes(values)
    \/ \E s \in Styles : SetStyle(s)
    \/ \E arg \in SetAlignArgs : SetAlign(arg[1], arg[2])
    \/ String
    \/ WriteTo

SpecLines == InitLines /\ [][NextLines]_vars

\* The k-th line a render of the table is to emit, line feed included.
ExpectedLine(k) ==
    IF k = 1 THEN renderBorder(<<>>, style, Widths, "top")
    ELSE IF k = 2 THEN renderRow(<<>>, headers, Widths, style, aligns, widthFunc)
    ELSE IF k = 3 THEN renderBorder(<<>>, style, Widths, "middle")
    ELSE IF k = Len(rows) + 4 THEN renderBorder(<<>>, style, Widths, "bottom")
    ELSE renderRow(<<>>, rows[k - 3], Widths, style, aligns, widthFunc)

\* The lines of b, each with the line feed that ends it.
TerminatedLines(b) == [k \in 1..Cardinality(LineBreaks(b)) |-> SplitLines(b)[k] \o <<10>>]

(***************************************************************************)
(* C24. For a table with at least one header and R stored rows, a render   *)
(* emits exactly R + 4 lines, each ended by a line feed, in this order:    *)
(* top border, header row, header separator, the R data rows in the order  *)
(* they were added, bottom border.                                         *)
(***************************************************************************)
C24_LineOrder ==
    (Rendered /\ Len(headers) >= 1) =>
        /\ RenderedBytes[Len(RenderedBytes)] = 10
        /\ Cardinality(LineBreaks(RenderedBytes)) = Len(rows) + 4
        /\ \A k \in 1..(Len(rows) + 4) :
              TerminatedLines(RenderedBytes)[k] = ExpectedLine(k)

(***************************************************************************)
(* TruncateToWidthBytes called on its own.                                 *)
(***************************************************************************)
InitTrunc ==
    /\ New(<<>>)
    /\ \E b \in FmtCells, maxWidth \in FmtWidths :
          last = [op |-> "args", b |-> b, maxWidth |-> maxWidth]

\* The call, with the state in which its loop ended.
CallTruncate ==
    /\ last.op = "args"
    /\ last' = [op |-> "TruncateToWidthBytes", b |-> last.b, maxWidth |-> last.maxWidth,
                out |-> TruncateToWidthBytes(last.b, last.maxWidth),
                loop |-> TruncLoop(last.b, <<>>, 0, last.maxWidth)]
    /\ UNCHANGED <<tvars, pool>>

NextTrunc == CallTruncate

SpecTrunc == InitTrunc /\ [][NextTrunc]_vars

\* The width of b under RuneWidth: the sum over the code points that
\* utf8.DecodeRune yields, an invalid byte being U+FFFD.
RECURSIVE RuneWidthSum(_)
RuneWidthFront(b, d) == RuneWidth(d.r) + RuneWidthSum(Drop(b, d.size))

RuneWidthSum(b) == IF Len(b) = 0 THEN 0 ELSE RuneWidthFront(b, DecodeRune(b))

Truncated == last.op = "TruncateToWidthBytes"

====
